---- MODULE Spec2Model ----
(***************************************************************************)
(* Attention detectors of src/monitor/detectors.rs.                        *)
(*                                                                         *)
(* The three detectors (ProcessStateDetector, StallDetector,               *)
(* StdinDetector) compute a verdict from a task, a polling context and     *)
(* what the operating system answers: the text of /proc/<pid>/stat, the    *)
(* target of /proc/<pid>/fd/0, the outcome of the lsof command and the     *)
(* wall clock.  A check call asks for these one system call at a time, and *)
(* the process and the clock may change between two of them.  The state of *)
(* the model is that world, the caller's task and context, the registry of *)
(* boxed detectors, the answers the running call has received, and the     *)
(* outcome of the last call that returned.                                 *)
(*                                                                         *)
(* Texts are sequences of characters: the status record is the text the    *)
(* kernel writes, split and parsed here as the code splits and parses it.  *)
(* Unsigned 64-bit integers are scaled down to 0..U64Max, because the      *)
(* integers TLC computes with are 32 bits wide.                            *)
(***************************************************************************)
EXTENDS Integers, Sequences, FiniteSets, TLC

VARIABLES
    stat,             \* what fs::read_to_string("/proc/<pid>/stat") answers
    fd0,              \* what fs::read_link("/proc/<pid>/fd/0") answers
    lsof,             \* what Command::new("lsof")...output() answers
    process,          \* the monitored process: "running", "zombie" or "reaped"
    now,              \* SystemTime::now(), whole seconds relative to the epoch
    overflow_checks,  \* build profile: TRUE = overflow checks on (debug)
    task,             \* the caller's Task
    context,          \* the caller's TaskContext
    detectors,        \* the registry: Vec<Box<dyn AttentionDetector>>
    origin,           \* "default" once create_default_detectors built it
    running,          \* index of the detector whose check is running, 0 = none
    answers,          \* what the system calls of the running call, or of the one
                      \* that has just returned, answered
    called,           \* index of the detector whose check returned last, 0 = none yet
    result,           \* outcome of that check call
    heard,            \* what the system calls of that call answered
    repeat,           \* how the call that has just returned relates to the one before
    ticks             \* clock changes so far (bounded by MaxTicks)

vars == <<stat, fd0, lsof, process, now, overflow_checks, task, context, detectors,
          origin, running, answers, called, result, heard, repeat, ticks>>

world == <<stat, fd0, lsof, process, now, overflow_checks>>

\* ------------------------------------------------------------------ bounds

\* Stand-in for u64::MAX: combined CPU times live in 0..U64Max.
U64Max == 7

\* How many times the clock may change (advance or be set) in one behaviour.
MaxTicks == 1

\* ------------------------------------------------------- Option and Result

None == <<>>
Some(x) == <<x>>
IsSome(o) == Len(o) = 1
Unwrap(o) == o[1]

\* A call either returns a value or ends in a panic.
Returned(v) == [outcome |-> "returned", value |-> v]
Panicked == [outcome |-> "panicked", value |-> None]
NoCall == [outcome |-> "none", value |-> None]

\* -------------------------------------------------------------- Duration

\* std::time::Duration: whole seconds plus nanoseconds below one second.
from_secs(s) == [secs |-> s, nanos |-> 0]
as_secs(d) == d.secs
DurationGT(a, b) == a.secs > b.secs \/ (a.secs = b.secs /\ a.nanos > b.nanos)

\* ------------------------------------------------------------ str helpers

\* A str or String is the sequence of its characters.  An ASCII character is
\* the one-character string of itself; any other character is the string
\* that names its code point, "U+2003" for EM SPACE.
Chars(ascii) == [i \in 1..Len(ascii) |-> SubSeq(ascii, i, i)]

\* char::is_whitespace: the 25 characters with the Unicode property
\* White_Space, U+0009 to U+000D and U+0020 among them.
Whitespace ==
    {"\t", "\n", "", "\f", "\r", " ",
     "U+0085", "U+00A0", "U+1680",
     "U+2000", "U+2001", "U+2002", "U+2003", "U+2004", "U+2005",
     "U+2006", "U+2007", "U+2008", "U+2009", "U+200A",
     "U+2028", "U+2029", "U+202F", "U+205F", "U+3000"}

CharAt(s, i) == s[i]

\* str::split_whitespace().collect::<Vec<&str>>(): the maximal runs of
\* non-whitespace characters, in order.
RECURSIVE SplitFrom(_, _, _, _)
SplitFrom(s, i, cur, acc) ==
    IF i > Len(s)
    THEN IF cur = <<>> THEN acc ELSE Append(acc, cur)
    ELSE IF CharAt(s, i) \in Whitespace
         THEN SplitFrom(s, i + 1, <<>>, IF cur = <<>> THEN acc ELSE Append(acc, cur))
         ELSE SplitFrom(s, i + 1, Append(cur, CharAt(s, i)), acc)

split_whitespace(s) == SplitFrom(s, 1, <<>>, <<>>)

\* str::contains(pat): pat occurs somewhere in s.
contains(s, pat) ==
    \E i \in 1..(Len(s) - Len(pat) + 1) : SubSeq(s, i, i + Len(pat) - 1) = pat

DecimalDigits == Chars("0123456789")
IsDigit(c) == \E d \in 0..9 : CharAt(DecimalDigits, d + 1) = c
DigitValue(c) == CHOOSE d \in 0..9 : CharAt(DecimalDigits, d + 1) = c

\* The digit loop of u64::from_str: an invalid digit or a value above
\* u64::MAX is an error (None here, as the callers apply .ok()).
RECURSIVE ParseDigits(_, _, _)
ParseDigits(s, i, acc) ==
    IF i > Len(s) THEN Some(acc)
    ELSE IF ~IsDigit(CharAt(s, i)) THEN None
    ELSE IF acc * 10 + DigitValue(CharAt(s, i)) > U64Max THEN None
    ELSE ParseDigits(s, i + 1, acc * 10 + DigitValue(CharAt(s, i)))

\* str::parse::<u64>().ok(): an optional '+', then at least one digit.
parse_u64(s) ==
    IF s = <<>> THEN None
    ELSE LET start == IF CharAt(s, 1) = "+" THEN 2 ELSE 1
         IN  IF start > Len(s) THEN None ELSE ParseDigits(s, start, 0)

\* str::lines().count(): lines end at '\n'; a last line needs no '\n'.
RECURSIVE CountLines(_, _, _)
CountLines(s, i, pending) ==
    IF i > Len(s) THEN (IF pending THEN 1 ELSE 0)
    ELSE IF CharAt(s, i) = "\n" THEN 1 + CountLines(s, i + 1, FALSE)
    ELSE CountLines(s, i + 1, TRUE)

lines_count(s) == CountLines(s, 1, FALSE)

\* ------------------------------------------------------- system calls

\* A check call makes its system calls one after another, and the world may
\* change between two of them.  io holds the answers the call has received:
\* the status record (fs::read_to_string), the target of descriptor 0
\* (fs::read_link), the outcome of lsof (Command::output) and the clock
\* (SystemTime::now).
NotAsked == [asked |-> FALSE]
Asked(v) == [asked |-> TRUE, val |-> v]
NoAnswers == [stat |-> NotAsked, fd0 |-> NotAsked, lsof |-> NotAsked, now |-> NotAsked]

\* The call stands at the system call `on`, which has not answered yet.
Blocked(on) == [outcome |-> "blocked", value |-> <<on>>]

\* What the world answers to a system call made now.
Answer(on) ==
    CASE on = "stat" -> stat
      [] on = "fd0" -> fd0
      [] on = "lsof" -> lsof
      [] on = "now" -> now

\* duration_since(UNIX_EPOCH) of a clock reading t: an error when the clock
\* is set before the epoch.
duration_since_epoch(t) == IF t < 0 THEN None ELSE Some(from_secs(t))

\* u64 addition: above u64::MAX it panics with overflow checks on and wraps
\* with them off.
u64_add(a, b) ==
    IF a + b <= U64Max THEN Returned(a + b)
    ELSE IF overflow_checks THEN Panicked
    ELSE Returned((a + b) % (U64Max + 1))

\* ------------------------------------------------- ProcessStateDetector

check_process_state(pid, io) ==
    IF ~io.stat.asked THEN Blocked("stat")
    ELSE LET stat_content == io.stat.val IN
    IF ~stat_content.ok THEN Returned(None)
    ELSE LET parts == split_whitespace(stat_content.content) IN
         IF Len(parts) < 3 THEN Returned(None)
         ELSE LET state == parts[3] IN
              IF state = Chars("S")
              THEN IF ~io.fd0.asked THEN Blocked("fd0")
                   ELSE LET link == io.fd0.val IN
                        IF /\ link.ok
                           /\ \/ contains(link.path, Chars("/dev/pts/"))
                              \/ contains(link.path, Chars("/dev/tty"))
                        THEN Returned(Some(Chars("waiting_input")))
                        ELSE Returned(Some(state))
              ELSE Returned(Some(state))

\* A check that flags when either gate holds instead of both.
ProcessStateDetector_check_either_gate(self, task_, context_, io) ==
    LET state == check_process_state(context_.pid, io) IN
    IF state.outcome = "blocked" THEN state
    ELSE IF IsSome(state.value) /\ Unwrap(state.value) = Chars("waiting_input")
    THEN IF ~io.now.asked THEN Blocked("now")
         ELSE LET since == duration_since_epoch(io.now.val) IN
         IF ~IsSome(since) THEN Panicked
         ELSE LET task_age == as_secs(Unwrap(since)) - task_.created_at IN
              IF task_age > 10 \/ as_secs(context_.idle_duration) > 5
              THEN Returned(Some("WaitingForInput"))
              ELSE Returned(None)
    ELSE Returned(None)

ProcessStateDetector_check(self, task_, context_, io) ==
    LET state == check_process_state(context_.pid, io) IN
    IF state.outcome = "blocked" THEN state
    ELSE IF IsSome(state.value) /\ Unwrap(state.value) = Chars("waiting_input")
    THEN IF ~io.now.asked THEN Blocked("now")
         ELSE LET since == duration_since_epoch(io.now.val) IN
         IF ~IsSome(since) THEN Panicked
         ELSE LET task_age == as_secs(Unwrap(since)) - task_.created_at IN
              IF task_age > 10 /\ as_secs(context_.idle_duration) > 5
              THEN Returned(Some("WaitingForInput"))
              ELSE Returned(None)
    ELSE Returned(None)

\* -------------------------------------------------------- StallDetector

\* A reader that takes an unparsable utime or stime as 0.
get_process_cpu_time_default_zero(pid, io) ==
    IF ~io.stat.asked THEN Blocked("stat")
    ELSE LET stat_content == io.stat.val IN
    IF ~stat_content.ok THEN Returned(None)
    ELSE LET parts == split_whitespace(stat_content.content) IN
         IF Len(parts) < 15 THEN Returned(None)
         ELSE LET utime == parse_u64(parts[14])
                  stime == parse_u64(parts[15])
                  sum == u64_add(IF IsSome(utime) THEN Unwrap(utime) ELSE 0,
                                 IF IsSome(stime) THEN Unwrap(stime) ELSE 0)
              IN  IF sum.outcome = "panicked" THEN Panicked
                  ELSE Returned(Some(sum.value))

get_process_cpu_time(pid, io) ==
    IF ~io.stat.asked THEN Blocked("stat")
    ELSE LET stat_content == io.stat.val IN
    IF ~stat_content.ok THEN Returned(None)
    ELSE LET parts == split_whitespace(stat_content.content) IN
         IF Len(parts) < 15 THEN Returned(None)
         ELSE LET utime == parse_u64(parts[14])
                  stime == parse_u64(parts[15])
              IN  IF ~IsSome(utime) THEN Returned(None)
                  ELSE IF ~IsSome(stime) THEN Returned(None)
                  ELSE LET sum == u64_add(Unwrap(utime), Unwrap(stime)) IN
                       IF sum.outcome = "panicked" THEN Panicked
                       ELSE Returned(Some(sum.value))

StallDetector_new(timeout) == [kind |-> "StallDetector", timeout |-> timeout]

\* A detector whose age gate opens a second early.
StallDetector_check_age_at_least_30(self, task_, context_, io) ==
    LET current_cpu == get_process_cpu_time(context_.pid, io) IN
    IF current_cpu.outcome # "returned" THEN current_cpu
    ELSE IF /\ IsSome(current_cpu.value)
            /\ IsSome(context_.last_cpu_time)
            /\ Unwrap(current_cpu.value) = Unwrap(context_.last_cpu_time)
            /\ DurationGT(context_.idle_duration, self.timeout)
         THEN IF ~io.now.asked THEN Blocked("now")
              ELSE LET since == duration_since_epoch(io.now.val) IN
              IF ~IsSome(since) THEN Panicked
              ELSE LET task_age == as_secs(Unwrap(since)) - task_.created_at IN
                   IF task_age >= 30
                   THEN Returned(Some("ProcessStalled"))
                   ELSE Returned(None)
         ELSE Returned(None)

StallDetector_check(self, task_, context_, io) ==
    LET current_cpu == get_process_cpu_time(context_.pid, io) IN
    IF current_cpu.outcome # "returned" THEN current_cpu
    ELSE IF /\ IsSome(current_cpu.value)
            /\ IsSome(context_.last_cpu_time)
            /\ Unwrap(current_cpu.value) = Unwrap(context_.last_cpu_time)
            /\ DurationGT(context_.idle_duration, self.timeout)
         THEN IF ~io.now.asked THEN Blocked("now")
              ELSE LET since == duration_since_epoch(io.now.val) IN
              IF ~IsSome(since) THEN Panicked
              ELSE LET task_age == as_secs(Unwrap(since)) - task_.created_at IN
                   IF task_age > 30
                   THEN Returned(Some("ProcessStalled"))
                   ELSE Returned(None)
         ELSE Returned(None)

\* -------------------------------------------------------- StdinDetector

is_reading_stdin(pid, io) ==
    IF ~io.lsof.asked THEN Blocked("lsof")
    ELSE LET output == io.lsof.val IN
         IF output.ok
         THEN Returned(lines_count(output.stdout) > 1)
         ELSE Returned(FALSE)

StdinDetector_check(self, task_, context_, io) ==
    LET reading == is_reading_stdin(context_.pid, io) IN
    IF reading.outcome = "blocked" THEN reading
    ELSE IF reading.value
    THEN IF ~io.now.asked THEN Blocked("now")
         ELSE LET since == duration_since_epoch(io.now.val) IN
         IF ~IsSome(since) THEN Panicked
         ELSE LET task_age == as_secs(Unwrap(since)) - task_.created_at IN
              IF task_age > 30
              THEN Returned(Some("WaitingForInput"))
              ELSE Returned(None)
    ELSE Returned(None)

\* ------------------------------------------------------------- registry

ProcessStateDetector_new == [kind |-> "ProcessStateDetector"]
StdinDetector_new == [kind |-> "StdinDetector"]

\* A factory that also enables the lsof detector.
create_default_detectors_with_stdin ==
    <<ProcessStateDetector_new, StallDetector_new(from_secs(600)), StdinDetector_new>>

create_default_detectors ==
    <<ProcessStateDetector_new, StallDetector_new(from_secs(600))>>

\* Dynamic dispatch of AttentionDetector::check on a boxed detector: the
\* outcome of the call given the answers io, or the system call it stands at.
check(self, task_, context_, io) ==
    CASE self.kind = "ProcessStateDetector" -> ProcessStateDetector_check(self, task_, context_, io)
      [] self.kind = "StallDetector" -> StallDetector_check(self, task_, context_, io)
      [] self.kind = "StdinDetector" -> StdinDetector_check(self, task_, context_, io)

\* ------------------------------------------------------------ the world

Unreadable == [ok |-> FALSE, content |-> <<>>]
Readable(text) == [ok |-> TRUE, content |-> text]

\* The kernel's status line of process 7: pid (comm) state ppid pgrp session
\* tty_nr tpgid flags minflt cminflt majflt cmajflt utime stime cutime ...
StatLine(comm, state, utime, stime) ==
    Chars("7 (") \o comm \o Chars(") " \o state \o " 1 7 7 0 -1 0 3 0 0 0 "
                                     \o utime \o " " \o stime \o " 0 0 20 0 1\n")

\* comm is the executable's name, which may hold any character: here a plain
\* one, ones with spaces, one with carriage returns and one with EM SPACEs.
Node == Chars("node")
Comms ==
    {Node, Chars("a b"), Chars("a S b"), Chars("a\rS\rb"),
     <<"a", "U+2003", "S", "U+2003", "b">>}

\* Records the state detector is tried on: every comm and state, and records
\* that are missing, empty or cut short.
StateStats ==
    {Readable(StatLine(c, st, "1", "1")) : c \in Comms, st \in {"S", "R"}}
    \cup {Unreadable, Readable(<<>>), Readable(Chars("7 (node)")), Readable(Chars("7 (node) S"))}

CpuNumerals == {"0", "1", ToString(U64Max)}

\* Records the stall detector is tried on: CPU times up to u64::MAX, and
\* records that are missing, cut short or not numeric.
StallStats ==
    {Readable(StatLine(c, "S", u, s)) :
        c \in {Node, Chars("a b")}, u \in CpuNumerals \ {"0"}, s \in CpuNumerals \ {ToString(U64Max)}}
    \cup {Unreadable,
          Readable(Chars("7 (node) S 1 7 7 0 -1 0 3 0 0 0 1")),
          Readable(StatLine(Node, "S", "x", "1")),
          Readable(StatLine(Node, "S", "1", "-1")),
          Readable(StatLine(Node, "S", ToString(U64Max + 1), "0"))}

Unavailable == [ok |-> FALSE, kind |-> "none", path |-> <<>>]
Target(kind, path) == [ok |-> TRUE, kind |-> kind, path |-> Chars(path)]

\* What descriptor 0 can point to: kind is what the target is, path what
\* read_link reports.
Fd0Targets ==
    {Unavailable,
     Target("pty", "/dev/pts/3"),
     Target("tty", "/dev/tty"),
     Target("file", "/tmp/input.txt"),
     Target("file", "/srv/dev/tty.log"),
     Target("pipe", "pipe:[5]"),
     Target("socket", "socket:[9]")}

TerminalKinds == {"pty", "tty"}

SpawnFailed == [ok |-> FALSE, status |-> -1, stdout |-> <<>>]
Output(status, stdout) == [ok |-> TRUE, status |-> status, stdout |-> stdout]

LsofHeader == Chars("COMMAND PID FD TYPE NAME\n")
LsofRow == Chars("node 7 0u CHR /dev/pts/3\n")

LsofOutcomes ==
    {SpawnFailed,
     Output(0, <<>>),
     Output(0, LsofHeader),
     Output(0, LsofHeader \o LsofRow),
     Output(0, LsofHeader \o Chars("node 7 0u CHR /dev/pts/3")),
     Output(1, <<>>),
     Output(1, LsofHeader \o LsofRow)}

Duration(secs, nanos) == [secs |-> secs, nanos |-> nanos]

\* Idle durations on both sides of a threshold, whole seconds and not.
IdlesAround(d) ==
    {Duration(d.secs, 0), Duration(d.secs, 500000000), Duration(d.secs + 1, 0)}

ShortIdles == IdlesAround(from_secs(5))

\* (now, created_at) pairs: a task created in the future, and task ages on
\* both sides of `edge`.
Clocks(edge) ==
    {<<1000, 2000>>} \cup {<<1000 + a, 1000>> : a \in {edge - 1, edge, edge + 1}}

\* The record whose utime + stime exceeds u64::MAX: the one world where the
\* build's overflow checks are felt.
Overflowing == Readable(StatLine(Node, "S", ToString(U64Max), "1"))

LastCpuTimes == {None, Some(0), Some(1), Some(2)}

CustomDetectors == <<StdinDetector_new, StallDetector_new(from_secs(5))>>

Default == <<"default", create_default_detectors>>
Custom == <<"custom", CustomDetectors>>

Context(last_cpu_time, idle_duration) ==
    [pid |-> 7, last_cpu_time |-> last_cpu_time, idle_duration |-> idle_duration]

NoRepeat == [again |-> FALSE, same_result |-> TRUE, before |-> NoAnswers]

InitCommon ==
    /\ process = "running"
    /\ running = 0
    /\ answers = NoAnswers
    /\ called = 0
    /\ result = NoCall
    /\ heard = NoAnswers
    /\ repeat = NoRepeat
    /\ ticks = 0

\* Worlds that exercise the state detector, which stands first in the default
\* registry; what it never reads is fixed.  Every status record, with
\* descriptor 0 on a pseudo-terminal:
InitStateWorlds ==
    /\ origin = Default[1] /\ detectors = Default[2]
    /\ stat \in StateStats
    /\ fd0 = Target("pty", "/dev/pts/3")
    /\ lsof = SpawnFailed
    /\ \E c \in Clocks(10) : now = c[1] /\ task = [created_at |-> c[2]]
    /\ overflow_checks = FALSE
    /\ \E idle \in ShortIdles : context = Context(None, idle)

\* and every target of descriptor 0, under a plainly named sleeping process.
InitTerminalWorlds ==
    /\ origin = Default[1] /\ detectors = Default[2]
    /\ stat = Readable(StatLine(Node, "S", "1", "1"))
    /\ fd0 \in Fd0Targets
    /\ lsof = SpawnFailed
    /\ \E c \in Clocks(10) : now = c[1] /\ task = [created_at |-> c[2]]
    /\ overflow_checks = FALSE
    /\ \E idle \in ShortIdles : context = Context(None, idle)

\* Worlds that exercise the stall detector, the last one of either registry.
\* Every status record and previous sample, with both gates open, under
\* either build:
InitStallWorlds ==
    /\ \E r \in {Default, Custom} : origin = r[1] /\ detectors = r[2]
    /\ stat \in StallStats
    /\ fd0 = Target("pty", "/dev/pts/3")
    /\ lsof = SpawnFailed
    /\ now = 1031 /\ task = [created_at |-> 1000]
    /\ overflow_checks \in (IF stat = Overflowing THEN BOOLEAN ELSE {FALSE})
    /\ \E last \in LastCpuTimes :
          context = Context(last, Duration(detectors[Len(detectors)].timeout.secs + 1, 0))

\* and every clock and idle duration around the gates, under an unchanged
\* CPU time.
InitStallGateWorlds ==
    /\ \E r \in {Default, Custom} : origin = r[1] /\ detectors = r[2]
    /\ stat = Readable(StatLine(Node, "S", "1", "1"))
    /\ fd0 = Target("pty", "/dev/pts/3")
    /\ lsof = SpawnFailed
    /\ \E c \in Clocks(30) : now = c[1] /\ task = [created_at |-> c[2]]
    /\ overflow_checks = FALSE
    /\ \E idle \in IdlesAround(detectors[Len(detectors)].timeout) :
          context = Context(Some(2), idle)

\* Worlds that exercise the lsof detector, which only the custom registry
\* holds.
InitStdinWorlds ==
    /\ origin = Custom[1] /\ detectors = Custom[2]
    /\ stat \in {Unreadable, Readable(StatLine(Node, "S", "1", "1"))}
    /\ fd0 = Target("pty", "/dev/pts/3")
    /\ lsof \in LsofOutcomes
    /\ \E c \in Clocks(30) : now = c[1] /\ task = [created_at |-> c[2]]
    /\ overflow_checks = FALSE
    /\ context = Context(None, Duration(6, 0))

Init ==
    /\ InitCommon
    /\ \/ InitStateWorlds
       \/ InitTerminalWorlds
       \/ InitStallWorlds
       \/ InitStallGateWorlds
       \/ InitStdinWorlds

\* ------------------------------------------------------------- actions

Alive == result.outcome # "panicked"

\* The check of detector i, which has the answers io0 and stands at a system
\* call, receives that call's answer and runs on: to its next system call, or
\* to its end.  When the call before it was of the same detector, repeat
\* records whether the results agree and what that call was answered.
Step(i, io0) ==
    LET on == check(detectors[i], task, context, io0).value[1]
        io1 == [io0 EXCEPT ![on] = Asked(Answer(on))]
        r == check(detectors[i], task, context, io1)
    IN  /\ answers' = io1
        /\ IF r.outcome = "blocked"
           THEN /\ running' = i
                /\ UNCHANGED <<called, result, heard, repeat>>
           ELSE /\ running' = 0
                /\ called' = i
                /\ result' = r
                /\ heard' = io1
                /\ repeat' = IF called = i
                             THEN [again |-> TRUE, same_result |-> (r = result),
                                   before |-> heard]
                             ELSE NoRepeat

\* The caller invokes check on the i-th detector of the registry: the call
\* runs up to and including its first system call.
Call(i) ==
    /\ Alive
    /\ running = 0
    /\ Step(i, NoAnswers)
    /\ UNCHANGED <<world, task, context, detectors, origin, ticks>>

\* The running check receives the answer of the system call it stands at.
Resume ==
    /\ running # 0
    /\ Step(running, answers)
    /\ UNCHANGED <<world, task, context, detectors, origin, ticks>>

\* A step after a call has returned leaves nothing of that call but its
\* result; a step while a call runs leaves the call as it is.
Forget ==
    /\ answers' = IF running = 0 THEN NoAnswers ELSE answers
    /\ repeat' = IF running = 0 THEN NoRepeat ELSE repeat

\* The wall clock advances by one second.
Tick ==
    /\ Alive
    /\ ticks < MaxTicks
    /\ now' = now + 1
    /\ ticks' = ticks + 1
    /\ Forget
    /\ UNCHANGED <<stat, fd0, lsof, process, overflow_checks, task, context,
                   detectors, origin, running, called, result, heard>>

\* The wall clock is set to a second before the Unix epoch.
ClockSetBeforeEpoch ==
    /\ Alive
    /\ ticks < MaxTicks
    /\ now >= 0
    /\ now' = -1
    /\ ticks' = ticks + 1
    /\ Forget
    /\ UNCHANGED <<stat, fd0, lsof, process, overflow_checks, task, context,
                   detectors, origin, running, called, result, heard>>

\* The status record of a process that has become a zombie: the state code,
\* which follows the parenthesis that closes comm, is Z, and the CPU times
\* stay as they were.
ZombieRecord(text) ==
    LET closes == {i \in 1..Len(text) : text[i] = ")"} IN
    IF closes = {} THEN text
    ELSE LET k == CHOOSE i \in closes : \A j \in closes : j <= i IN
         IF k + 2 > Len(text) THEN text ELSE [text EXCEPT ![k + 2] = "Z"]

\* The monitored process exits and is a zombie until its parent reaps it: its
\* status record stays readable, its descriptors are gone and lsof finds
\* nothing.
ProcessExits ==
    /\ Alive
    /\ process = "running"
    /\ process' = "zombie"
    /\ stat' = IF stat.ok THEN Readable(ZombieRecord(stat.content)) ELSE stat
    /\ fd0' = Unavailable
    /\ lsof' = IF lsof.ok THEN Output(1, <<>>) ELSE lsof
    /\ Forget
    /\ UNCHANGED <<now, overflow_checks, task, context, detectors, origin,
                   running, called, result, heard, ticks>>

\* The parent reaps the zombie: its /proc entries vanish.
ProcessReaped ==
    /\ Alive
    /\ process = "zombie"
    /\ process' = "reaped"
    /\ stat' = Unreadable
    /\ Forget
    /\ UNCHANGED <<fd0, lsof, now, overflow_checks, task, context, detectors,
                   origin, running, called, result, heard, ticks>>

\* The caller, between two calls, replaces its registry by the default one.
CreateDefault ==
    /\ Alive
    /\ running = 0
    /\ origin # "default"
    /\ detectors' = create_default_detectors
    /\ origin' = "default"
    /\ called' = 0
    /\ result' = NoCall
    /\ heard' = NoAnswers
    /\ Forget
    /\ UNCHANGED <<world, task, context, running, ticks>>

Next ==
    \/ \E i \in DOMAIN detectors : Call(i)
    \/ Resume
    \/ Tick
    \/ ClockSetBeforeEpoch
    \/ ProcessExits
    \/ ProcessReaped
    \/ CreateDefault

Spec == Init /\ [][Next]_vars

\* ------------------------------------------- vocabulary of the properties

\* The kernel's format is "pid (comm) state ...": comm may hold spaces, and
\* the fields after it are counted from the token that closes the
\* parenthesis.
EndsWithParen(tok) == Len(tok) >= 1 /\ CharAt(tok, Len(tok)) = ")"

CommEnd(parts) ==
    IF \E k \in DOMAIN parts : EndsWithParen(parts[k])
    THEN CHOOSE k \in DOMAIN parts :
            /\ EndsWithParen(parts[k])
            /\ \A j \in DOMAIN parts : EndsWithParen(parts[j]) => j <= k
    ELSE 0

\* Field n (n >= 3) of the kernel's record, None when the record lacks it.
KernelField(content, n) ==
    LET parts == split_whitespace(content)
        k == CommEnd(parts)
    IN  IF k = 0 \/ k + n - 2 > Len(parts) THEN None ELSE Some(parts[k + n - 2])

\* The process state code (field 3).
KernelState(content) == KernelField(content, 3)

\* utime + stime (fields 14 and 15) as an unbounded integer, None when either
\* is missing or not a u64.
KernelCpuTime(content) ==
    LET u == KernelField(content, 14)
        s == KernelField(content, 15)
    IN  IF IsSome(u) /\ IsSome(s) /\ IsSome(parse_u64(Unwrap(u))) /\ IsSome(parse_u64(Unwrap(s)))
        THEN Some(Unwrap(parse_u64(Unwrap(u))) + Unwrap(parse_u64(Unwrap(s))))
        ELSE None

NumTokens(content) == Len(split_whitespace(content))
Token(content, n) == split_whitespace(content)[n]

\* What the last call was answered, and for what it never asked, what the
\* world held when it returned.
SeenStat == IF answers.stat.asked THEN answers.stat.val ELSE stat
SeenFd0 == IF answers.fd0.asked THEN answers.fd0.val ELSE fd0
SeenLsof == IF answers.lsof.asked THEN answers.lsof.val ELSE lsof
SeenNow == IF answers.now.asked THEN answers.now.val ELSE now

CalledKind == IF called = 0 THEN "none" ELSE detectors[called].kind
\* A check call has just returned: every call makes a system call.
Returning == running = 0 /\ answers # NoAnswers
After(kind) == Returning /\ CalledKind = kind

Age == SeenNow - task.created_at
Idle == context.idle_duration

Emits(r) == r.outcome = "returned" /\ r.value # None
WaitingForInput == Returned(Some("WaitingForInput"))
ProcessStalled == Returned(Some("ProcessStalled"))

\* The condition the claims speak of, as the kernel has it: the state code is
\* S and descriptor 0 is a terminal device.  (The code tests the third token
\* of the record and the path of the target, see check_process_state.)
SleepingOnTerminal ==
    /\ SeenStat.ok
    /\ KernelState(SeenStat.content) = Some(Chars("S"))
    /\ SeenFd0.ok
    /\ SeenFd0.kind \in TerminalKinds

\* -------------------------------------------------------------- claims

\* C1: after a check of the state-based detector, if the task is younger than
\* 10 seconds or the idle duration is 5 seconds or less, no verdict was
\* emitted, whatever the process state and the descriptor-0 target.
C1_BothGates ==
    (After("ProcessStateDetector") /\ (Age < 10 \/ ~DurationGT(Idle, from_secs(5))))
        => ~Emits(result)

C1_Witness ==
    /\ After("ProcessStateDetector")
    /\ SleepingOnTerminal
    /\ SeenStat.content = StatLine(Node, "S", "1", "1")
    /\ Age \in 0..9
    /\ Idle = Duration(6, 0)
    /\ result = Returned(None)

\* C2: after a check of the state-based detector, if the record is readable
\* with state code S, descriptor 0 is a pseudo-terminal or controlling
\* terminal, the task age exceeds 10 seconds and the idle duration exceeds
\* 5 seconds by any amount, the check returned WaitingForInput.
C2_Original ==
    (After("ProcessStateDetector") /\ SleepingOnTerminal /\ Age > 10
        /\ DurationGT(Idle, from_secs(5)))
        => result = WaitingForInput

\* C3: after a check of the stall-based detector, if last_cpu_time is absent,
\* or the current utime + stime differs from last_cpu_time, the check did not
\* return ProcessStalled.
C3_Original ==
    (After("StallDetector")
        /\ \/ context.last_cpu_time = None
           \/ /\ SeenStat.ok
              /\ IsSome(KernelCpuTime(SeenStat.content))
              /\ KernelCpuTime(SeenStat.content) # context.last_cpu_time)
        => result # ProcessStalled

\* C4: after a check of the stall-based detector with timeout T on a readable
\* record: if last_cpu_time equals the current utime + stime, the idle
\* duration exceeds T and the task age exceeds 30 seconds, the check returned
\* ProcessStalled; if the idle duration is T or less or the task age is 30
\* seconds or less, it emitted no verdict.
C4_Original ==
    (After("StallDetector") /\ SeenStat.ok)
        => /\ (/\ IsSome(context.last_cpu_time)
               /\ KernelCpuTime(SeenStat.content) = context.last_cpu_time
               /\ DurationGT(Idle, detectors[called].timeout)
               /\ Age > 30)
                 => result = ProcessStalled
           /\ (~DurationGT(Idle, detectors[called].timeout) \/ Age <= 30)
                 => ~Emits(result)

\* C5: a registry built by create_default_detectors holds exactly two
\* detectors, the state-based one and then the stall-based one with a timeout
\* of 600 seconds, and no lsof detector.
C5_DefaultRegistry ==
    origin = "default"
        => /\ Len(detectors) = 2
           /\ detectors[1].kind = "ProcessStateDetector"
           /\ detectors[2].kind = "StallDetector"
           /\ detectors[2].timeout = Duration(600, 0)
           /\ \A i \in DOMAIN detectors : detectors[i].kind # "StdinDetector"

C5_Witness ==
    /\ origin = "default"
    /\ After("StallDetector")
    /\ called = 2

\* Fields each variant requires of the record.
RequiredFields(kind) == IF kind = "StallDetector" THEN 15 ELSE 3

NonNumericCpu(content) ==
    \E n \in {14, 15} :
        /\ IsSome(KernelField(content, n))
        /\ ~IsSome(parse_u64(Unwrap(KernelField(content, n))))

\* C6 as stated: after a check of any detector, if the record cannot be read,
\* has fewer fields than required or has a non-numeric utime or stime, the
\* check returned None.
C6_Original ==
    (Returning /\ called # 0
        /\ \/ ~SeenStat.ok
           \/ NumTokens(SeenStat.content) < RequiredFields(CalledKind)
           \/ NonNumericCpu(SeenStat.content))
        => result = Returned(None)

\* C6 as amended: after a check of the state-based detector on a record that
\* cannot be read or has fewer than 3 tokens, and after a check of the
\* stall-based detector on a record that cannot be read, has fewer than 15
\* tokens, or whose 14th or 15th token is not a u64, the check returned None.
C6_ReadFailureIsNone ==
    /\ (After("ProcessStateDetector") /\ (~SeenStat.ok \/ NumTokens(SeenStat.content) < 3))
          => result = Returned(None)
    /\ (After("StallDetector")
          /\ \/ ~SeenStat.ok
             \/ NumTokens(SeenStat.content) < 15
             \/ ~IsSome(parse_u64(Token(SeenStat.content, 14)))
             \/ ~IsSome(parse_u64(Token(SeenStat.content, 15))))
          => result = Returned(None)

C6_Witness ==
    /\ After("StallDetector")
    /\ SeenStat = Readable(StatLine(Node, "S", "x", "1"))
    /\ context.last_cpu_time = Some(1)
    /\ DurationGT(Idle, detectors[called].timeout)
    /\ Age > 30
    /\ result = Returned(None)

\* C7: no check call ends in a panic.
C7_Original == result.outcome # "panicked"

\* C8: the state-based detector returned WaitingForInput only if the state
\* code of the record is S and descriptor 0 is a pseudo-terminal or
\* controlling terminal.
C8_Original ==
    (After("ProcessStateDetector") /\ result = WaitingForInput) => SleepingOnTerminal

\* C9 as stated: a call of the detector that was called last, with the same
\* task and context (neither changes in a behaviour), returned what that
\* call returned.
C9_Original == repeat.again => repeat.same_result

\* The task age above which a detector may emit.
AgeGate(kind) == IF kind = "ProcessStateDetector" THEN 10 ELSE 30

\* The clock reading of a call, if it made one, is not before the epoch.
AfterEpoch(io) == io.now.asked => io.now.val >= 0

\* Two calls of a detector were answered alike: the status record, the
\* descriptor-0 target and the lsof outcome each of them read are the same,
\* no clock reading is before the epoch, and if both read the clock, the task
\* ages they found are on the same side of the detector's age gate.
Alike(a, b, kind) ==
    /\ a.stat = b.stat
    /\ a.fd0 = b.fd0
    /\ a.lsof = b.lsof
    /\ AfterEpoch(a)
    /\ AfterEpoch(b)
    /\ (a.now.asked /\ b.now.asked)
          => ((a.now.val - task.created_at > AgeGate(kind))
                <=> (b.now.val - task.created_at > AgeGate(kind)))

\* C9 as amended: a call of the detector that was called last, with the same
\* task and context, answered alike by the operating system (whatever else
\* changed, the clock included), returned what that call returned; and no
\* step of a check call changes the registry or any detector in it.
C9_Idempotent ==
    /\ []((Returning /\ repeat.again /\ Alike(repeat.before, answers, CalledKind))
            => repeat.same_result)
    /\ [][(running' # 0 \/ Returning') => detectors' = detectors]_vars

\* Two calls of the stall detector a second apart, both past the age gate,
\* both reporting the stall.
C9_Witness ==
    /\ After("StallDetector")
    /\ repeat.again
    /\ Alike(repeat.before, answers, CalledKind)
    /\ repeat.before.now.asked
    /\ answers.now.asked
    /\ repeat.before.now.val # answers.now.val
    /\ result = ProcessStalled

\* C10: after a check of the lsof detector, if lsof could not be spawned or
\* exited with a non-zero status the check returned None, and if the task
\* age is 30 seconds or less it emitted no verdict.
C10_Original ==
    After("StdinDetector")
        => /\ (~SeenLsof.ok \/ SeenLsof.status # 0) => result = Returned(None)
           /\ Age <= 30 => ~Emits(result)

====
